---- MODULE Spec2Model ----
(***************************************************************************)
(* A model of flexml (github.com/jpoz/flexml): the lenient XML parser      *)
(* Parse, the event Stream fed with AddData and pulled with Next, and the  *)
(* two tree builders on top of the Stream, ElementStreamReader.ReadNode    *)
(* and ParseReader, and the queries (DeepFind, FindOne) and the rendering  *)
(* (String) of the Document that Parse returns.                            *)
(*                                                                         *)
(* A byte is a one-character string, a Go string or []byte is a sequence   *)
(* of bytes, and positions are Go's 0-based offsets: At(in, pos) is        *)
(* in[pos].  A *Node is an index into a heap (a sequence of node records), *)
(* 0 is the nil pointer.  A map[string]string is a set of <<key, value>>   *)
(* pairs with unique keys.                                                 *)
(***************************************************************************)
EXTENDS Integers, Sequences, FiniteSets, TLC

VARIABLES
    input,      \* the text handed to every entry point
    phase,      \* which entry point the driver is running
    pos,        \* parser.pos of the parser that Parse created
    nodes,      \* the heap of the Document that Parse builds; nodes[1] is doc.Root
    frames,     \* the activations of parser.parse, innermost last: each its parent node
    parseRet,   \* what Parse returned: [done, doc, err]
    failures,   \* history: every `return err` of parser.parse, in order
    last,       \* history: the construct the latest iteration of parse handled
    s,          \* the Stream: [buffer, position, currentEvent, err]
    events,     \* history: the events of the Next calls that returned true
    lastRet,    \* history: what the latest Next call returned ("none" before any)
    fed,        \* how many bytes of input the caller has passed to AddData
    orderly,    \* history: every AddData so far came after Next had returned false
    esr,        \* the ElementStreamReader with the heap of the nodes it built
    rnOut,      \* history: what each ReadNode call returned: [node, err]
    prOut,      \* what ParseReader returned: [done, heap, Nodes, err]
    ref,        \* the trees the input was written from (<<>> when it is free text)
    strOut,     \* what doc.String() returned, and Parse of that string
    findOut     \* what the latest doc.DeepFind and doc.FindOne call returned

vars == <<input, phase, pos, nodes, frames, parseRet, failures, last, s, events,
          lastRet, fed, orderly, esr, rnOut, prOut, ref, strOut, findOut>>

parseVars == <<pos, nodes, frames, parseRet, failures, last>>
streamVars == <<s, events, lastRet, fed, orderly>>
readerVars == <<esr, rnOut, prOut>>
docVars == <<ref, strOut, findOut>>

(***************************************************************************)
(* Bytes and strings                                                       *)
(***************************************************************************)
Lower == {"a","b","c","d","e","f","g","h","i","j","k","l","m",
          "n","o","p","q","r","s","t","u","v","w","x","y","z"}
Upper == {"A","B","C","D","E","F","G","H","I","J","K","L","M",
          "N","O","P","Q","R","S","T","U","V","W","X","Y","Z"}
Digit == {"0","1","2","3","4","5","6","7","8","9"}

At(in, p) == in[p + 1]
Slice(in, a, b) == SubSeq(in, a + 1, b)
Front(q) == SubSeq(q, 1, Len(q) - 1)
Min(a, b) == IF a < b THEN a ELSE b

\* `v := e; ...`: the value of e, computed once, under the name the body gives it
With(v, F(_)) == F(v)

isWhitespace(b) == b \in {" ", "\t", "\n", "\r"}

\* the first byte of a name / a later byte of a name
isNameStart(ch) == ch \in Lower \cup Upper \cup {"_", ":"}
isNameChar(ch) == ch \in Lower \cup Upper \cup Digit \cup {"_", ":", "-", "."}

\* strings.TrimSpace
RECURSIVE TrimLeft(_)
TrimLeft(t) ==
    IF t # <<>> /\ isWhitespace(t[1]) THEN TrimLeft(Tail(t)) ELSE t
RECURSIVE TrimRight(_)
TrimRight(t) ==
    IF t # <<>> /\ isWhitespace(t[Len(t)]) THEN TrimRight(Front(t)) ELSE t
TrimSpace(t) == TrimRight(TrimLeft(t))

(***************************************************************************)
(* Errors.  An error value is its message; `at` stands for the line and    *)
(* column the name errors print (both are functions of the position), and  *)
(* delim for the delimiter the unterminated error prints.                  *)
(***************************************************************************)
NilErr == [msg |-> "nil", at |-> 0 - 1, delim |-> <<>>]
NameErr(m, p) == [msg |-> m, at |-> p, delim |-> <<>>]
UntermErr(d) ==
    [msg |-> "unexpected end of input while looking for", at |-> 0 - 1, delim |-> d]
EOF == [msg |-> "EOF", at |-> 0 - 1, delim |-> <<>>]

(***************************************************************************)
(* The scan helpers of parser.  Each takes the input and the position and  *)
(* returns the position it leaves in parser.pos with what it read.         *)
(***************************************************************************)
advance(in, p) == IF p < Len(in) THEN p + 1 ELSE p

RECURSIVE skipWhitespace(_, _)
skipWhitespace(in, p) ==
    IF p < Len(in) /\ isWhitespace(At(in, p)) THEN skipWhitespace(in, advance(in, p)) ELSE p

RECURSIVE nameEnd(_, _)
nameEnd(in, p) ==
    IF p < Len(in) /\ isNameChar(At(in, p)) THEN nameEnd(in, advance(in, p)) ELSE p

readName(in, p) ==
    With(skipWhitespace(in, p), LAMBDA nameStart :
    IF nameStart < Len(in)
    THEN IF ~isNameStart(At(in, nameStart))
         THEN [name |-> <<>>, pos |-> nameStart,
               err |-> NameErr("invalid name start character", nameStart)]
         ELSE With(nameEnd(in, advance(in, nameStart)), LAMBDA e :
              IF e > nameStart
              THEN [name |-> Slice(in, nameStart, e), pos |-> e, err |-> NilErr]
              ELSE [name |-> <<>>, pos |-> e, err |-> NameErr("empty name", e)])
    ELSE [name |-> <<>>, pos |-> nameStart,
          err |-> NameErr("unexpected end of input when reading name", nameStart)])

RECURSIVE scanTo(_, _, _)
scanTo(in, p, stop) ==
    IF p < Len(in) /\ At(in, p) \notin stop THEN scanTo(in, advance(in, p), stop) ELSE p

readUntilChar(in, p, ch) ==
    With(scanTo(in, p, {ch}), LAMBDA e : [text |-> Slice(in, p, e), pos |-> e])

RECURSIVE advanceN(_, _, _)
advanceN(in, p, n) == IF n = 0 THEN p ELSE advanceN(in, advance(in, p), n - 1)

RECURSIVE findDelim(_, _, _)
findDelim(in, p, delimiter) ==
    IF p <= Len(in) - Len(delimiter)
    THEN IF Slice(in, p, p + Len(delimiter)) = delimiter
         THEN [found |-> TRUE, pos |-> p]
         ELSE findDelim(in, advance(in, p), delimiter)
    ELSE [found |-> FALSE, pos |-> p]

\* a readUntil that would step over a delimiter it has not found
readUntilPastEnd(in, p, delimiter) ==
    With(findDelim(in, p, delimiter), LAMBDA f :
    [text |-> Slice(in, p, f.pos), pos |-> f.pos + Len(delimiter),
     err |-> IF f.found THEN NilErr ELSE UntermErr(delimiter)])

readUntil(in, p, delimiter) ==
    With(findDelim(in, p, delimiter), LAMBDA f :
    IF f.found
    THEN [text |-> Slice(in, p, f.pos), pos |-> advanceN(in, f.pos, Len(delimiter)),
          err |-> NilErr]
    ELSE [text |-> Slice(in, p, f.pos), pos |-> f.pos, err |-> UntermErr(delimiter)])

readAttribute(in, p) ==
    With(readName(in, p), LAMBDA n :
    IF n.err # NilErr
    THEN [name |-> <<>>, value |-> <<>>, pos |-> n.pos, err |-> n.err]
    ELSE
    With(skipWhitespace(in, n.pos), LAMBDA p1 :
    IF p1 >= Len(in) \/ At(in, p1) # "="
    THEN [name |-> n.name, value |-> <<>>, pos |-> p1, err |-> NilErr]
    ELSE
    With(skipWhitespace(in, advance(in, p1)), LAMBDA p2 :
    IF p2 >= Len(in)
    THEN [name |-> n.name, value |-> <<>>, pos |-> p2, err |-> NilErr]
    ELSE IF At(in, p2) \in {"\"", "'"}
    THEN With(scanTo(in, advance(in, p2), {At(in, p2)}), LAMBDA e :
         [name |-> n.name, value |-> Slice(in, advance(in, p2), e),
          pos |-> IF e < Len(in) THEN advance(in, e) ELSE e, err |-> NilErr])
    ELSE With(scanTo(in, p2, {" ", "\t", "\n", "\r", ">", "/"}), LAMBDA e :
         [name |-> n.name, value |-> Slice(in, p2, e), pos |-> e, err |-> NilErr]))))

\* a map that would keep the value a key already has
setAttrKeepFirst(attrs, k, v) ==
    IF \E a \in attrs : a[1] = k THEN attrs ELSE attrs \cup {<<k, v>>}

\* attrs[k] = v on a map[string]string
setAttr(attrs, k, v) == {a \in attrs : a[1] # k} \cup {<<k, v>>}

\* the attribute loop of an opening tag (the same loop in parse and in nextEvent)
RECURSIVE attrLoop(_, _, _)
attrLoop(in, p, attrs) ==
    IF p < Len(in) /\ At(in, p) # ">" /\ At(in, p) # "/"
    THEN With(skipWhitespace(in, p), LAMBDA q :
         IF q < Len(in) /\ At(in, q) # ">" /\ At(in, q) # "/"
         THEN With(readAttribute(in, q), LAMBDA a :
              IF a.err # NilErr
              THEN [pos |-> a.pos, attrs |-> attrs]
              ELSE attrLoop(in, a.pos, setAttr(attrs, a.name, a.value)))
         ELSE attrLoop(in, q, attrs))
    ELSE [pos |-> p, attrs |-> attrs]

\* an end of tag that would take no tag for self-closing
tagEndNeverSelfClosing(in, p) ==
    LET p1 == IF p < Len(in) /\ At(in, p) = "/" THEN advance(in, p) ELSE p
        p2 == IF p1 < Len(in) /\ At(in, p1) = ">" THEN advance(in, p1) ELSE p1 IN
    [selfClosing |-> FALSE, pos |-> p2]

\* the end of an opening tag: a `/` makes it self-closing, then the `>` is skipped
tagEnd(in, p) ==
    LET selfClosing == p < Len(in) /\ At(in, p) = "/"
        p1 == IF selfClosing THEN advance(in, p) ELSE p
        p2 == IF p1 < Len(in) /\ At(in, p1) = ">" THEN advance(in, p1) ELSE p1 IN
    [selfClosing |-> selfClosing, pos |-> p2]

(***************************************************************************)
(* Nodes and heaps                                                         *)
(***************************************************************************)
RootName == <<"r", "o", "o", "t">>

Node(type, name, value, attrs, parent) ==
    [type |-> type, name |-> name, value |-> value, children |-> <<>>,
     attrs |-> attrs, parent |-> parent]

NoNode == Node("none", <<>>, <<>>, {}, 0)

\* an append that would list the new node twice among the children
attachTwice(h, n) ==
    [Append(h, n) EXCEPT ![n.parent].children = Append(Append(@, Len(h) + 1), Len(h) + 1)]

\* the heap after `n` is allocated and appended to the Children of n.parent
attach(h, n) ==
    [Append(h, n) EXCEPT ![n.parent].children = Append(@, Len(h) + 1)]

\* the heap after `n` is allocated without being linked to a parent
alloc(h, n) == Append(h, n)

(***************************************************************************)
(* parser.parse: one iteration of its loop.  The result says where the     *)
(* cursor is left and what the iteration does:                             *)
(*   "attach"  append `node` to parent.Children and loop                   *)
(*   "descend" append `node` and call p.parse(node)                        *)
(*   "skip"    attach nothing and loop                                     *)
(*   "return"  return `err` (NilErr is a return of nil)                    *)
(***************************************************************************)
Iter(p, act, node, err, kind, name) ==
    [pos |-> p, act |-> act, node |-> node, err |-> err, kind |-> kind, name |-> name]

\* `if parent.Name == name`: a close tag ends the current parse call
closesCurrentAny(parentName, name) == TRUE
closesCurrent(parentName, name) == parentName = name

\* a close tag that would be left unread when it does not close the element
parseCloseTagUnread(in, p, parent, parentName) ==
    With(readName(in, advance(in, p)), LAMBDA n :
    IF n.err # NilErr
    THEN Iter(n.pos, "return", NoNode, n.err, "close", <<>>)
    ELSE IF closesCurrent(parentName, n.name)
    THEN With(scanTo(in, n.pos, {">"}), LAMBDA gt :
         Iter(IF gt < Len(in) THEN advance(in, gt) ELSE gt, "return", NoNode, NilErr,
              "close", n.name))
    ELSE Iter(p - 1, "skip", NoNode, NilErr, "close", n.name))

\* case '/': p is at the `/`
parseCloseTag(in, p, parent, parentName) ==
    With(readName(in, advance(in, p)), LAMBDA n :
    IF n.err # NilErr
    THEN Iter(n.pos, "return", NoNode, n.err, "close", <<>>)
    ELSE With(scanTo(in, n.pos, {">"}), LAMBDA gt :
         Iter(IF gt < Len(in) THEN advance(in, gt) ELSE gt,
              IF closesCurrent(parentName, n.name) THEN "return" ELSE "skip",
              NoNode, NilErr, "close", n.name)))

\* case '!', the comment branch: p is at the first `-`
parseComment(in, p, parent) ==
    With(readUntil(in, advance(in, advance(in, p)), <<"-", "-", ">">>), LAMBDA c :
    IF c.err # NilErr
    THEN Iter(c.pos, "return", NoNode, c.err, "comment", <<>>)
    ELSE Iter(c.pos, "attach", Node("CommentNode", <<>>, c.text, {}, parent), NilErr,
              "comment", <<>>))

\* case '!', the declaration branch: p is just after `<!`
parseDecl(in, p, parent) ==
    With(readUntilChar(in, p, ">"), LAMBDA r :
    Iter(IF r.pos < Len(in) THEN advance(in, r.pos) ELSE r.pos, "attach",
         Node("TextNode", <<>>,
              <<"<", "!">> \o r.text
              \o (IF r.pos < Len(in) THEN <<At(in, r.pos)>> ELSE <<>>),
              {}, parent),
         NilErr, "decl", <<>>))

\* case '!': p is at the `!`
parseBang(in, p, parent) ==
    With(advance(in, p), LAMBDA p1 :
    IF p1 + 1 < Len(in) /\ At(in, p1) = "-" /\ At(in, p1 + 1) = "-"
    THEN parseComment(in, p1, parent)
    ELSE parseDecl(in, p1, parent))

\* case '?': p is at the `?`
\* a processing instruction whose data would be stored as it stands
parsePIUntrimmed(in, p, parent) ==
    With(readName(in, advance(in, p)), LAMBDA target :
    IF target.err # NilErr
    THEN Iter(target.pos, "return", NoNode, target.err, "pi", <<>>)
    ELSE With(readUntil(in, target.pos, <<"?", ">">>), LAMBDA data :
         IF data.err # NilErr
         THEN Iter(data.pos, "return", NoNode, data.err, "pi", target.name)
         ELSE Iter(data.pos, "attach",
                   Node("ProcessingInstructionNode", target.name, data.text, {}, parent),
                   NilErr, "pi", target.name)))

parsePI(in, p, parent) ==
    With(readName(in, advance(in, p)), LAMBDA target :
    IF target.err # NilErr
    THEN Iter(target.pos, "return", NoNode, target.err, "pi", <<>>)
    ELSE With(readUntil(in, target.pos, <<"?", ">">>), LAMBDA data :
         IF data.err # NilErr
         THEN Iter(data.pos, "return", NoNode, data.err, "pi", target.name)
         ELSE Iter(data.pos, "attach",
                   Node("ProcessingInstructionNode", target.name, TrimSpace(data.text),
                        {}, parent),
                   NilErr, "pi", target.name)))

\* default: an opening tag, p is just after the `<`
parseOpenTag(in, p, parent) ==
    With(readName(in, p), LAMBDA n :
    IF n.err # NilErr
    THEN Iter(n.pos, "return", NoNode, n.err, "open", <<>>)
    ELSE With(attrLoop(in, n.pos, {}), LAMBDA a :
         With(tagEnd(in, a.pos), LAMBDA t :
         Iter(t.pos, IF t.selfClosing THEN "attach" ELSE "descend",
              Node("ElementNode", n.name, <<>>, a.attrs, parent), NilErr, "open", n.name))))

\* the input ends just after a `<`: it is kept as text
parseLoneLT(p, parent) ==
    Iter(p, "attach", Node("TextNode", <<>>, <<"<">>, {}, parent), NilErr, "lt", <<>>)

\* text content that would be stored without the whitespace around it
parseTextTrimmed(in, p, parent) ==
    With(readUntilChar(in, p, "<"), LAMBDA r :
    IF r.text # <<>>
    THEN Iter(r.pos, "attach", Node("TextNode", <<>>, TrimSpace(r.text), {}, parent),
              NilErr, "text", <<>>)
    ELSE Iter(r.pos, "skip", NoNode, NilErr, "text", <<>>))

\* text content up to the next `<`
parseText(in, p, parent) ==
    With(readUntilChar(in, p, "<"), LAMBDA r :
    IF r.text # <<>>
    THEN Iter(r.pos, "attach", Node("TextNode", <<>>, r.text, {}, parent), NilErr,
              "text", <<>>)
    ELSE Iter(r.pos, "skip", NoNode, NilErr, "text", <<>>))

\* the loop condition fails: `return nil // Reached end of input`
parseAtEnd(p) == Iter(p, "return", NoNode, NilErr, "end", <<>>)

\* one pass through `for p.pos < len(p.input)` of parse(parent)
parseIter(in, p, parent, parentName) ==
    IF ~(p < Len(in)) THEN parseAtEnd(p)
    ELSE IF At(in, p) = "<"
    THEN With(advance(in, p), LAMBDA p1 :
         IF p1 < Len(in)
         THEN CASE At(in, p1) = "/" -> parseCloseTag(in, p1, parent, parentName)
                [] At(in, p1) = "!" -> parseBang(in, p1, parent)
                [] At(in, p1) = "?" -> parsePI(in, p1, parent)
                [] OTHER -> parseOpenTag(in, p1, parent)
         ELSE parseLoneLT(p1, parent))
    ELSE parseText(in, p, parent)

\* `if err := p.parse(node); err != nil { }`: what the caller of a nested
\* parse does with the error it gets back
childErrReturned(err) == err
childErr(err) == NilErr

\* Parse's two return statements
NilDoc == [nil |-> TRUE, Root |-> 0]
ParseReturnNilOnErr(err) ==
    [done |-> TRUE, doc |-> IF err # NilErr THEN NilDoc ELSE [nil |-> FALSE, Root |-> 1],
     err |-> err]
ParseReturn(err) == [done |-> TRUE, doc |-> [nil |-> FALSE, Root |-> 1], err |-> err]

(***************************************************************************)
(* The state each entry point starts from                                  *)
(***************************************************************************)
RootNode == Node("ElementNode", RootName, <<>>, {}, 0)
NoIter ==
    [kind |-> "none", name |-> <<>>, act |-> "none", err |-> NilErr, depth |-> 0,
     start |-> 0, parentName |-> <<>>]
NotReturned == [done |-> FALSE, doc |-> NilDoc, err |-> NilErr]

(***************************************************************************)
(* parser.nextEvent: the scanner behind Stream.Next.  It returns the       *)
(* event (NilEvent for nil), the position reached and the error.           *)
(***************************************************************************)
Event(type, name, text, attrs, selfClosing) ==
    [type |-> type, name |-> name, text |-> text, attrs |-> attrs,
     selfClosing |-> selfClosing]

NilEvent == Event("nil", <<>>, <<>>, {}, FALSE)

Scanned(event, p, err) == [event |-> event, pos |-> p, err |-> err]

\* case '/': p is at the `/`
nextCloseTag(in, p) ==
    With(readName(in, advance(in, p)), LAMBDA n :
    IF n.err # NilErr
    THEN Scanned(NilEvent, n.pos, n.err)
    ELSE With(scanTo(in, n.pos, {">"}), LAMBDA gt :
         Scanned(Event("EndElement", n.name, <<>>, {}, FALSE),
                 IF gt < Len(in) THEN advance(in, gt) ELSE gt, NilErr)))

\* case '!': p is at the `!`
nextBang(in, p) ==
    With(advance(in, p), LAMBDA p1 :
    IF p1 + 1 < Len(in) /\ At(in, p1) = "-" /\ At(in, p1 + 1) = "-"
    THEN With(readUntil(in, advance(in, advance(in, p1)), <<"-", "-", ">">>), LAMBDA c :
         IF c.err # NilErr
         THEN Scanned(NilEvent, c.pos, c.err)
         ELSE Scanned(Event("Comment", <<>>, c.text, {}, FALSE), c.pos, NilErr))
    ELSE With(readUntilChar(in, p1, ">"), LAMBDA r :
         Scanned(Event("Text", <<>>,
                       <<"<", "!">> \o r.text
                       \o (IF r.pos < Len(in) THEN <<At(in, r.pos)>> ELSE <<>>),
                       {}, FALSE),
                 IF r.pos < Len(in) THEN advance(in, r.pos) ELSE r.pos, NilErr)))

\* case '?': p is at the `?`
nextPI(in, p) ==
    With(readName(in, advance(in, p)), LAMBDA target :
    IF target.err # NilErr
    THEN Scanned(NilEvent, target.pos, target.err)
    ELSE With(readUntil(in, target.pos, <<"?", ">">>), LAMBDA data :
         IF data.err # NilErr
         THEN Scanned(NilEvent, data.pos, data.err)
         ELSE Scanned(Event("ProcessingInstruction", target.name, data.text, {}, FALSE),
                      data.pos, NilErr)))

\* default: an opening tag, p is just after the `<`
nextOpenTag(in, p) ==
    With(readName(in, p), LAMBDA n :
    IF n.err # NilErr
    THEN Scanned(NilEvent, n.pos, n.err)
    ELSE With(attrLoop(in, n.pos, {}), LAMBDA a :
         With(tagEnd(in, a.pos), LAMBDA t :
         Scanned(Event("StartElement", n.name, <<>>, a.attrs, t.selfClosing), t.pos,
                 NilErr))))

nextEvent(in, p) ==
    With(skipWhitespace(in, p), LAMBDA q :
    IF q >= Len(in) THEN Scanned(NilEvent, q, NilErr)
    ELSE IF At(in, q) = "<"
    THEN With(advance(in, q), LAMBDA p1 :
         IF p1 < Len(in)
         THEN CASE At(in, p1) = "/" -> nextCloseTag(in, p1)
                [] At(in, p1) = "!" -> nextBang(in, p1)
                [] At(in, p1) = "?" -> nextPI(in, p1)
                [] OTHER -> nextOpenTag(in, p1)
         ELSE Scanned(Event("Text", <<>>, <<"<">>, {}, FALSE), p1, NilErr))
    ELSE With(readUntilChar(in, q, "<"), LAMBDA r :
         IF r.text # <<>>
         THEN Scanned(Event("Text", <<>>, r.text, {}, FALSE), r.pos, NilErr)
         ELSE Scanned(NilEvent, r.pos, NilErr)))

(***************************************************************************)
(* Stream                                                                  *)
(***************************************************************************)
NewStream == [buffer |-> <<>>, position |-> 0, currentEvent |-> NilEvent, err |-> NilErr]

\* Stream.AddData, for a caller that leaves the slices it passed alone
AddData(st, data) ==
    IF Len(st.buffer) = 0
    THEN [st EXCEPT !.buffer = data]
    ELSE [st EXCEPT !.buffer = @ \o data]

\* a Next that would give up one byte before the end of the buffer
StreamNextStopsShort(st) ==
    IF st.err # NilErr \/ st.position + 1 >= Len(st.buffer)
    THEN [s |-> st, ret |-> FALSE]
    ELSE With(nextEvent(st.buffer, st.position), LAMBDA r :
         [s |-> [st EXCEPT !.currentEvent = r.event, !.position = r.pos, !.err = r.err],
          ret |-> r.event # NilEvent])

\* a Next that would scan again after an error was recorded
StreamNextAfterErr(st) ==
    IF st.position >= Len(st.buffer)
    THEN [s |-> st, ret |-> FALSE]
    ELSE With(nextEvent(st.buffer, st.position), LAMBDA r :
         [s |-> [st EXCEPT !.currentEvent = r.event, !.position = r.pos, !.err = r.err],
          ret |-> r.event # NilEvent])

\* a Next that would return an event and leave the position where it was
StreamNextKeepsPosition(st) ==
    IF st.err # NilErr \/ st.position >= Len(st.buffer)
    THEN [s |-> st, ret |-> FALSE]
    ELSE With(nextEvent(st.buffer, st.position), LAMBDA r :
         [s |-> [st EXCEPT !.currentEvent = r.event, !.err = r.err],
          ret |-> r.event # NilEvent])

\* Stream.Next: the stream after the call, and what the call returned
StreamNext(st) ==
    IF st.err # NilErr \/ st.position >= Len(st.buffer)
    THEN [s |-> st, ret |-> FALSE]
    ELSE With(nextEvent(st.buffer, st.position), LAMBDA r :
         [s |-> [st EXCEPT !.currentEvent = r.event, !.position = r.pos, !.err = r.err],
          ret |-> r.event # NilEvent])

\* the size of the read block of ParseStream, of ElementStreamReader, and the
\* distance from the end of the buffer at which ReadNode reads ahead
StreamBlock == 4096
ReaderBlock == 4096
RefillMargin == 1024

\* r.Read(buf) on a strings.Reader / bytes.Reader holding `content`, `off`
\* bytes of it already read, into a block of `size` bytes
Read(content, off, size) ==
    IF off >= Len(content)
    THEN [n |-> 0, err |-> EOF]
    ELSE [n |-> Min(size, Len(content) - off), err |-> NilErr]

\* ParseStream: the read loop
RECURSIVE readAll(_, _, _)
readAll(st, content, off) ==
    With(Read(content, off, StreamBlock), LAMBDA r :
    With(IF r.n > 0 THEN AddData(st, Slice(content, off, off + r.n)) ELSE st, LAMBDA st1 :
    IF r.err = EOF THEN st1 ELSE readAll(st1, content, off + r.n)))

ParseStream(content) == readAll(NewStream, content, 0)

(***************************************************************************)
(* ElementStreamReader.  e = [rd, stream, currentNode, stack, eof, heap]:  *)
(* rd is how far e.reader has been read, heap holds the nodes built.       *)
(***************************************************************************)
\* rd: how much of the content the reader has delivered; max: the most bytes
\* the reader delivers in one Read (a strings.Reader fills the block it is
\* given); shared: stream.buffer is a slice of the array of e.buffer
\* failIn: which Read of e.reader, counted from the next one, returns an
\* error that is not io.EOF (0: none does, as on a strings.Reader)
NewElementStreamReader ==
    [rd |-> 0, max |-> ReaderBlock, stream |-> NewStream, currentNode |-> 0,
     stack |-> <<>>, eof |-> FALSE, shared |-> FALSE, heap |-> <<>>, failIn |-> 0]

\* the error of a Read that fails
ReadErr == [msg |-> "read error", at |-> 0 - 1, delim |-> <<>>]

\* e.reader.Read(e.buffer) stores the bytes `data` at the start of the array
\* of e.buffer: a stream buffer that is a slice of that array now begins
\* with them
overwritten(buffer, data) ==
    [i \in 1..Len(buffer) |-> IF i <= Len(data) THEN data[i] ELSE buffer[i]]

\* e.stream.AddData(e.buffer[:n]) after the Read that delivered `data`.  The
\* first AddData makes stream.buffer the slice e.buffer[:n] itself; the later
\* ones append to it in place as long as the array of ReaderBlock bytes has
\* room, and move it to an array of its own when it has not.
addRead(e, data) ==
    With(IF e.shared THEN overwritten(e.stream.buffer, data) ELSE e.stream.buffer,
         LAMBDA buffer :
    [e EXCEPT !.stream = AddData([@ EXCEPT !.buffer = buffer], data),
              !.shared = \/ Len(buffer) = 0
                         \/ e.shared /\ Len(buffer) + Len(data) <= ReaderBlock,
              !.rd = @ + Len(data)])

readMoreData(e, content) ==
    IF e.failIn = 1
    THEN [e |-> [e EXCEPT !.failIn = 0], err |-> ReadErr]
    ELSE With(Read(content, e.rd, Min(ReaderBlock, e.max)), LAMBDA r :
         With([(IF r.n > 0 THEN addRead(e, Slice(content, e.rd, e.rd + r.n)) ELSE e)
                  EXCEPT !.failIn = IF @ > 0 THEN @ - 1 ELSE 0], LAMBDA e1 :
         [e |-> IF r.err = EOF THEN [e1 EXCEPT !.eof = TRUE] ELSE e1, err |-> r.err]))

\* flushed: the node is returned by the code after the loop, as an element
\* that is still open
Returned(e, node, err) == [e |-> e, node |-> node, err |-> err, flushed |-> FALSE]
Handled(e, ret, node) == [e |-> e, ret |-> ret, node |-> node]

\* the innermost open element
top(stack) == stack[Len(stack)]

\* case StartElement
readStart(e, event) ==
    LET id == Len(e.heap) + 1 IN
    IF Len(e.stack) = 0
    THEN LET h == alloc(e.heap, Node("ElementNode", event.name, <<>>, event.attrs, 0)) IN
         IF event.selfClosing
         THEN Handled([e EXCEPT !.heap = h], TRUE, id)
         ELSE Handled([e EXCEPT !.heap = h, !.currentNode = id, !.stack = Append(@, id)],
                      FALSE, 0)
    ELSE LET h == attach(e.heap,
                         Node("ElementNode", event.name, <<>>, event.attrs, top(e.stack))) IN
         Handled([e EXCEPT !.heap = h,
                           !.stack = IF ~event.selfClosing THEN Append(@, id) ELSE @],
                 FALSE, 0)

\* an EndElement that would hand the root back and keep it as currentNode
readEndKeepsCurrent(e, event) ==
    IF Len(e.stack) > 0
    THEN LET stack == Front(e.stack) IN
         IF Len(stack) = 0
         THEN Handled([e EXCEPT !.stack = stack], TRUE, e.currentNode)
         ELSE Handled([e EXCEPT !.stack = stack], FALSE, 0)
    ELSE Handled(e, FALSE, 0)

\* case EndElement
readEnd(e, event) ==
    IF Len(e.stack) > 0
    THEN LET stack == Front(e.stack) IN
         IF Len(stack) = 0
         THEN Handled([e EXCEPT !.stack = stack, !.currentNode = 0], TRUE, e.currentNode)
         ELSE Handled([e EXCEPT !.stack = stack], FALSE, 0)
    ELSE Handled(e, FALSE, 0)

\* case Text, Comment, ProcessingInstruction
readLeaf(e, event) ==
    IF Len(e.stack) > 0
    THEN LET n == CASE event.type = "Text" ->
                         Node("TextNode", <<>>, event.text, {}, top(e.stack))
                    [] event.type = "Comment" ->
                         Node("CommentNode", <<>>, event.text, {}, top(e.stack))
                    [] OTHER ->
                         Node("ProcessingInstructionNode", event.name, event.text, {},
                              top(e.stack)) IN
         Handled([e EXCEPT !.heap = attach(@, n)], FALSE, 0)
    ELSE Handled(e, FALSE, 0)

\* the switch on event.Type in the loop of ReadNode
readEvent(e, event) ==
    CASE event.type = "StartElement" -> readStart(e, event)
      [] event.type = "EndElement" -> readEnd(e, event)
      [] OTHER -> readLeaf(e, event)

\* `Check if we need more data` at the end of a loop pass
refill(e, content) ==
    IF ~e.eof /\ e.stream.position >= Len(e.stream.buffer) - RefillMargin
    THEN readMoreData(e, content)
    ELSE [e |-> e, err |-> NilErr]

RECURSIVE ReadNode(_, _)
RECURSIVE readLoop(_, _)

\* what follows the loop of ReadNode
readFlush(e, content) ==
    IF e.currentNode # 0
    THEN [Returned([e EXCEPT !.currentNode = 0, !.stack = <<>>], e.currentNode, NilErr)
             EXCEPT !.flushed = TRUE]
    ELSE IF ~e.eof
    THEN With(readMoreData(e, content), LAMBDA m :
         IF m.err # NilErr
         THEN Returned(IF m.err = EOF THEN [m.e EXCEPT !.eof = TRUE] ELSE m.e, 0, m.err)
         ELSE ReadNode(m.e, content))
    ELSE Returned(e, 0, EOF)

\* `for e.stream.Next()`
readLoop(e, content) ==
    With(StreamNext(e.stream), LAMBDA nx :
    IF ~nx.ret
    THEN readFlush([e EXCEPT !.stream = nx.s], content)
    ELSE With(readEvent([e EXCEPT !.stream = nx.s], nx.s.currentEvent), LAMBDA r :
         IF r.ret
         THEN Returned(r.e, r.node, NilErr)
         ELSE With(refill(r.e, content), LAMBDA m :
              IF m.err # NilErr /\ m.err # EOF
              THEN Returned(m.e, 0, m.err)
              ELSE readLoop(m.e, content))))

ReadNode(e, content) ==
    IF Len(e.stream.buffer) = 0 /\ ~e.eof
    THEN With(readMoreData(e, content), LAMBDA m :
         IF m.err # NilErr /\ m.err # EOF
         THEN Returned(m.e, 0, m.err)
         ELSE readLoop(m.e, content))
    ELSE readLoop(e, content)

(***************************************************************************)
(* ParseReader.  st = [s, heap]; the result is the StreamDocument's Nodes  *)
(* with the heap they point into.                                          *)
(***************************************************************************)
leafNode(event, parent) ==
    CASE event.type = "Text" -> Node("TextNode", <<>>, event.text, {}, parent)
      [] event.type = "Comment" -> Node("CommentNode", <<>>, event.text, {}, parent)
      [] OTHER -> Node("ProcessingInstructionNode", event.name, event.text, {}, parent)

\* case EndElement of the inner loop: the node to go on with
innerEnd(heap, node, depth) == IF depth > 1 THEN heap[node].parent ELSE node

\* `for stream.Next() && depth > 0`: Next is called before depth is looked at
RECURSIVE innerLoop(_, _, _)
innerLoop(st, node, depth) ==
    With(StreamNext(st.s), LAMBDA nx :
    With([st EXCEPT !.s = nx.s], LAMBDA st1 :
    With(nx.s.currentEvent, LAMBDA ev :
    IF ~(nx.ret /\ depth > 0) THEN st1
    ELSE CASE ev.type = "StartElement" ->
                With(attach(st.heap, Node("ElementNode", ev.name, <<>>, ev.attrs, node)),
                     LAMBDA h :
                IF ~ev.selfClosing
                THEN innerLoop([st1 EXCEPT !.heap = h], Len(st.heap) + 1, depth + 1)
                ELSE innerLoop([st1 EXCEPT !.heap = h], node, depth))
           [] ev.type = "EndElement" ->
                innerLoop(st1, innerEnd(st.heap, node, depth), depth - 1)
           [] OTHER ->
                innerLoop([st1 EXCEPT !.heap = attach(@, leafNode(ev, node))], node,
                          depth))))

\* `for stream.Next()` of ParseReader; currentNode is nil throughout
RECURSIVE outerLoop(_, _)
outerLoop(st, Nodes) ==
    With(StreamNext(st.s), LAMBDA nx :
    With([st EXCEPT !.s = nx.s], LAMBDA st1 :
    With(nx.s.currentEvent, LAMBDA ev :
    With(Len(st.heap) + 1, LAMBDA id :
    IF ~nx.ret THEN [s |-> st1.s, heap |-> st1.heap, Nodes |-> Nodes]
    ELSE CASE ev.type = "StartElement" ->
                With(alloc(st.heap, Node("ElementNode", ev.name, <<>>, ev.attrs, 0)),
                     LAMBDA h :
                IF ~ev.selfClosing
                THEN outerLoop(innerLoop([st1 EXCEPT !.heap = h], id, 1), Append(Nodes, id))
                ELSE outerLoop([st1 EXCEPT !.heap = h], Append(Nodes, id)))
           [] ev.type = "EndElement" -> outerLoop(st1, Nodes)
           [] OTHER ->
                outerLoop([st1 EXCEPT !.heap = alloc(@, leafNode(ev, 0))],
                          Append(Nodes, id))))))

ParseReader(content) ==
    With(outerLoop([s |-> ParseStream(content), heap |-> <<>>], <<>>), LAMBDA r :
    [done |-> TRUE, heap |-> r.heap, Nodes |-> r.Nodes, err |-> NilErr])

NoDocument == [done |-> FALSE, heap |-> <<>>, Nodes |-> <<>>, err |-> NilErr]

(***************************************************************************)
(* Parse as a function: the loop of parser.parse run to its end, nested    *)
(* calls included.  st = [pos, nodes, frames] as in the variables.         *)
(***************************************************************************)
RECURSIVE parseRun(_, _)
parseRun(in, st) ==
    With(parseIter(in, st.pos, top(st.frames), st.nodes[top(st.frames)].name), LAMBDA it :
    With(IF it.act \in {"attach", "descend"} THEN attach(st.nodes, it.node) ELSE st.nodes,
         LAMBDA h :
    IF it.act # "return"
    THEN parseRun(in, [pos |-> it.pos, nodes |-> h,
                       frames |-> IF it.act = "descend"
                                  THEN Append(st.frames, Len(st.nodes) + 1)
                                  ELSE st.frames])
    ELSE IF Len(st.frames) = 1
    THEN [nodes |-> h, doc |-> ParseReturn(it.err).doc, err |-> ParseReturn(it.err).err]
    ELSE IF childErr(it.err) # NilErr
    THEN [nodes |-> h, doc |-> ParseReturn(it.err).doc, err |-> ParseReturn(it.err).err]
    ELSE parseRun(in, [pos |-> it.pos, nodes |-> h, frames |-> Front(st.frames)])))

Parse(xml) == parseRun(xml, [pos |-> 0, nodes |-> <<RootNode>>, frames |-> <<1>>])

(***************************************************************************)
(* The queries and the rendering of a Document.  h is the heap the         *)
(* Document lives in.                                                      *)
(***************************************************************************)
RECURSIVE deepFindRecursive(_, _, _)
RECURSIVE deepFindChildren(_, _, _)
deepFindRecursive(h, node, name) ==
    (IF h[node].type = "ElementNode" /\ h[node].name = name THEN <<node>> ELSE <<>>)
    \o deepFindChildren(h, h[node].children, name)

\* `for _, child := range node.Children`
deepFindChildren(h, children, name) ==
    IF children = <<>> THEN <<>>
    ELSE deepFindRecursive(h, Head(children), name)
         \o deepFindChildren(h, Tail(children), name)

DeepFind(h, doc, name) ==
    With(deepFindRecursive(h, doc.Root, name), LAMBDA result :
    [nodes |-> result, found |-> Len(result) > 0])

FindOne(h, doc, name) ==
    With(DeepFind(h, doc, name), LAMBDA r :
    IF r.found /\ Len(r.nodes) > 0
    THEN [node |-> r.nodes[1], found |-> TRUE]
    ELSE [node |-> 0, found |-> FALSE])

\* strings.Repeat
RECURSIVE Repeat(_, _)
Repeat(str, n) == IF n <= 0 THEN <<>> ELSE str \o Repeat(str, n - 1)

\* `for k, v := range node.Attrs`: Go ranges over a map in an order of its own;
\* ord lists the keys in the order this rendering meets them
RECURSIVE printAttrs(_, _)
printAttrs(attrs, ord) ==
    IF ord = <<>> THEN <<>>
    ELSE (IF \E a \in attrs : a[1] = Head(ord)
          THEN <<" ">> \o Head(ord) \o <<"=", "\"">>
               \o (CHOOSE a \in attrs : a[1] = Head(ord))[2] \o <<"\"">>
          ELSE <<>>)
         \o printAttrs(attrs, Tail(ord))

RECURSIVE printNode(_, _, _, _)
RECURSIVE printChildren(_, _, _, _)
printNode(h, node, indent, ord) ==
    CASE h[node].type = "ElementNode" ->
            Repeat(<<" ", " ">>, indent) \o <<"<">> \o h[node].name
            \o printAttrs(h[node].attrs, ord)
            \o (IF Len(h[node].children) = 0
                THEN <<"/", ">">>
                ELSE <<">">>
                     \o printChildren(h, h[node].children, indent, ord)
                     \o (IF \E i \in 1..Len(h[node].children) :
                               h[h[node].children[i]].type = "ElementNode"
                         THEN <<"\n">> \o Repeat(<<" ", " ">>, indent)
                         ELSE <<>>)
                     \o <<"<", "/">> \o h[node].name \o <<">">>)
      [] h[node].type = "TextNode" -> h[node].value
      [] h[node].type = "CommentNode" ->
            Repeat(<<" ", " ">>, indent) \o <<"<", "!", "-", "-">> \o h[node].value
            \o <<"-", "-", ">">>
      [] OTHER ->
            Repeat(<<" ", " ">>, indent) \o <<"<", "?">> \o h[node].name
            \o (IF h[node].value # <<>> THEN <<" ">> \o h[node].value ELSE <<>>)
            \o <<"?", ">">>

\* the loop over node.Children in printNode
printChildren(h, children, indent, ord) ==
    IF children = <<>> THEN <<>>
    ELSE (IF h[Head(children)].type = "ElementNode"
          THEN <<"\n">> \o printNode(h, Head(children), indent + 1, ord)
          ELSE printNode(h, Head(children), 0, ord))
         \o printChildren(h, Tail(children), indent, ord)

String(h, doc, ord) == printNode(h, doc.Root, 0, ord)

\* the orders in which a range over the attribute maps of h can meet the keys
AttrKeys(h) == {a[1] : a \in UNION {h[i].attrs : i \in 1..Len(h)}}
Orders(K) ==
    {o \in [1..Cardinality(K) -> K] : \A i, j \in 1..Cardinality(K) : o[i] = o[j] => i = j}

NoString == [done |-> FALSE, text |-> <<>>, nodes |-> <<>>, err |-> NilErr]
NoFind ==
    [name |-> <<>>, nodes |-> <<>>, found |-> FALSE, node |-> 0, foundOne |-> FALSE]

(***************************************************************************)
(* Inputs: every text made of at most MaxFrags of the fragments below, so  *)
(* that open, close and self-closing tags with two names, text,            *)
(* whitespace, a lone `<` (a cut tag, a bad name) and the two ends of a    *)
(* comment meet in any order.  The chunked inputs are made of at most      *)
(* MaxChunkFrags fragments that a chunk boundary can cut inside a name.    *)
(***************************************************************************)
MaxFrags == 4
MaxChunkFrags == 2

Fragments ==
    { <<"<", "a", ">">>, <<"<", "b", ">">>, <<"<", "/", "a", ">">>, <<"<", "/", "b", ">">>,
      <<"<", "b", "/", ">">>, <<"x">>, <<" ">>, <<"<">>, <<"<", "!", "-", "-">>,
      <<"-", "-", ">">> }

ChunkFragments ==
    { <<"<", "a", "b", ">">>, <<"<", "/", "a", "b", ">">>, <<"x">>, <<" ">>,
      <<"<", "!", "-", "-">>, <<"-", "-", ">">> }

RECURSIVE Texts(_, _)
Texts(F, n) ==
    IF n = 0 THEN {<<>>}
    ELSE LET S == Texts(F, n - 1) IN S \cup {t \o f : t \in S, f \in F}

(***************************************************************************)
(* Spec: a driver hands the same input to Parse, to ParseStream and a loop *)
(* of Next, to an ElementStreamReader read with ReadNode until io.EOF, and *)
(* to ParseReader.  The four share no state, so they run one after another.*)
(***************************************************************************)
\* the state before any call: the input, what the driver does first, the
\* reader the ElementStreamReader is built on and the trees the input was
\* written from
InitOf(in, ph, ret, reader, trees) ==
    /\ input = in
    /\ phase = ph
    /\ pos = 0
    /\ nodes = <<RootNode>>
    /\ frames = <<1>>
    /\ parseRet = NotReturned
    /\ failures = <<>>
    /\ last = NoIter
    /\ s = NewStream
    /\ events = <<>>
    /\ lastRet = ret
    /\ fed = 0
    /\ orderly = TRUE
    /\ esr = reader
    /\ rnOut = <<>>
    /\ prOut = NoDocument
    /\ ref = trees
    /\ strOut = NoString
    /\ findOut = NoFind

InitWith(in, ph, ret) == InitOf(in, ph, ret, NewElementStreamReader, <<>>)

Init == \E in \in Texts(Fragments, MaxFrags) : InitWith(in, "Parse", "none")

\* Parse, one pass of the loop of the innermost parser.parse at a time; when the
\* outermost parse returns, Parse returns
ParseStep ==
    /\ phase = "Parse"
    /\ \E it \in {parseIter(input, pos, frames[Len(frames)],
                              nodes[frames[Len(frames)]].name)} :
       LET returns == it.act = "return"
           \* the error the caller of this parse goes on with
           up == IF Len(frames) > 1 THEN childErr(it.err) ELSE it.err
           left == IF ~returns
                   THEN IF it.act = "descend" THEN Append(frames, Len(nodes) + 1) ELSE frames
                   ELSE IF Len(frames) > 1 /\ up # NilErr THEN <<>> ELSE Front(frames) IN
       /\ pos' = it.pos
       /\ nodes' = IF it.act \in {"attach", "descend"} THEN attach(nodes, it.node) ELSE nodes
       /\ frames' = left
       /\ failures' = IF returns /\ it.err # NilErr
                      THEN Append(failures,
                                  [err |-> it.err, start |-> pos, depth |-> Len(frames)])
                      ELSE failures
       /\ last' = [kind |-> it.kind, name |-> it.name, act |-> it.act, err |-> it.err,
                   depth |-> Len(frames), start |-> pos,
                   parentName |-> nodes[frames[Len(frames)]].name]
       /\ IF left = <<>>
          THEN parseRet' = ParseReturn(up) /\ phase' = "Stream"
          ELSE UNCHANGED <<parseRet, phase>>
    /\ UNCHANGED <<input, streamVars, readerVars, docVars>>

\* stream, _ := ParseStream(strings.NewReader(input))
ParseStreamCall ==
    /\ phase = "Stream"
    /\ lastRet = "none"
    /\ s' = ParseStream(input)
    /\ lastRet' = "new"
    /\ fed' = Len(input)
    /\ UNCHANGED <<input, phase, events, orderly, parseVars, readerVars, docVars>>

\* stream.Next()
NextCall ==
    /\ phase \in {"Stream", "Chunks"}
    /\ lastRet # "none"
    /\ \E nx \in {StreamNext(s)} :
       /\ s' = nx.s
       /\ events' = IF nx.ret THEN Append(events, nx.s.currentEvent) ELSE events
       /\ lastRet' = IF nx.ret THEN "true" ELSE "false"
       /\ phase' = IF phase = "Stream" /\ ~nx.ret THEN "ReadNode" ELSE phase
    /\ UNCHANGED <<input, fed, orderly, parseVars, readerVars, docVars>>

\* reader.ReadNode() on NewElementStreamReader(strings.NewReader(input))
ReadNodeCall ==
    /\ phase = "ReadNode"
    /\ \E r \in {ReadNode(esr, input)} :
       /\ esr' = r.e
       /\ rnOut' = Append(rnOut, [node |-> r.node, err |-> r.err])
       /\ phase' = IF r.err = EOF THEN "ParseReader" ELSE phase
    /\ UNCHANGED <<input, prOut, parseVars, streamVars, docVars>>

\* ParseReader(strings.NewReader(input))
ParseReaderCall ==
    /\ phase = "ParseReader"
    /\ prOut' = ParseReader(input)
    /\ phase' = "Done"
    /\ UNCHANGED <<input, esr, rnOut, parseVars, streamVars, docVars>>

\* doc.String(), and Parse of the string it returned
StringCall ==
    /\ parseRet.done
    /\ ~strOut.done
    /\ \E ord \in Orders(AttrKeys(nodes)) :
       \E text \in {String(nodes, parseRet.doc, ord)} :
       \E again \in {Parse(text)} :
          strOut' = [done |-> TRUE, text |-> text, nodes |-> again.nodes, err |-> again.err]
    /\ UNCHANGED <<input, phase, ref, findOut, parseVars, streamVars, readerVars>>

\* doc.DeepFind(name) and doc.FindOne(name)
QueryNames == {<<"a">>, <<"b">>, RootName}

DeepFindCall ==
    /\ parseRet.done
    /\ \E name \in QueryNames :
       \E all \in {DeepFind(nodes, parseRet.doc, name)} :
       \E one \in {FindOne(nodes, parseRet.doc, name)} :
          findOut' = [name |-> name, nodes |-> all.nodes, found |-> all.found,
                      node |-> one.node, foundOne |-> one.found]
    /\ UNCHANGED <<input, phase, ref, strOut, parseVars, streamVars, readerVars>>

Next == ParseStep \/ ParseStreamCall \/ NextCall \/ ReadNodeCall \/ ParseReaderCall

Spec == Init /\ [][Next]_vars

(***************************************************************************)
(* SpecChunks: a caller feeds the input to a new Stream in chunks of any   *)
(* sizes with AddData and calls Next whenever it likes.                    *)
(***************************************************************************)
InitChunks ==
    \E in \in Texts(ChunkFragments, MaxChunkFrags) : InitWith(in, "Chunks", "new")

\* stream.AddData(chunk), the chunk being the next n bytes of the input
AddDataCall ==
    /\ phase = "Chunks"
    /\ \E n \in 1..(Len(input) - fed) :
          /\ s' = AddData(s, Slice(input, fed, fed + n))
          /\ fed' = fed + n
    /\ orderly' = (orderly /\ (fed = 0 \/ lastRet = "false"))
    /\ lastRet' = "new"
    /\ UNCHANGED <<input, phase, events, parseVars, readerVars, docVars>>

NextChunks == AddDataCall \/ NextCall

SpecChunks == InitChunks /\ [][NextChunks]_vars

(***************************************************************************)
(* SpecBytes: the run of Spec (Parse, then the Stream, then ReadNode, then *)
(* ParseReader) on every sequence of at most MaxBytes bytes of markup,     *)
(* name, whitespace and quote characters, so that every way in which a     *)
(* unit can be cut short or garbled within that length occurs.             *)
(***************************************************************************)
MaxBytes == 4

Bytes == {<<"<">>, <<">">>, <<"/">>, <<"!">>, <<"-">>, <<"?">>, <<"=">>, <<"\"">>, <<"a">>,
          <<" ">>}

InitBytes == \E in \in Texts(Bytes, MaxBytes) : InitWith(in, "Parse", "none")

SpecBytes == InitBytes /\ [][Next]_vars

(***************************************************************************)
(* SpecLive: the run of Spec on every short byte string over the bytes     *)
(* the loops branch on, where Parse runs to its end once called, and the   *)
(* driver then calls ParseStream and calls Next until it returns false.    *)
(***************************************************************************)
MaxLiveBytes == 3

LiveBytes == {<<"<">>, <<">">>, <<"/">>, <<"?">>, <<"=">>, <<"a">>, <<" ">>}

InitLive == \E in \in Texts(LiveBytes, MaxLiveBytes) : InitWith(in, "Parse", "none")

SpecLive ==
    /\ InitLive
    /\ [][Next]_vars
    /\ WF_vars(ParseStep)
    /\ WF_vars(ParseStreamCall)
    /\ WF_vars(NextCall)

(***************************************************************************)
(* SpecPI: the run of Spec on inputs with processing instructions, whose   *)
(* data may begin and end with whitespace.                                 *)
(***************************************************************************)
MaxPIFrags == 4

PIFragments ==
    { <<"<", "?", "p">>, <<"?", ">">>, <<" ">>, <<"d">>, <<"<", "a", ">">>, <<"x">> }

InitPI == \E in \in Texts(PIFragments, MaxPIFrags) : InitWith(in, "Parse", "none")

SpecPI == InitPI /\ [][Next]_vars

(***************************************************************************)
(* SpecReader: ReadNode called again and again, also after it returned     *)
(* io.EOF, on an ElementStreamReader whose reader delivers the input in    *)
(* reads of at most max bytes.                                             *)
(***************************************************************************)
MaxReaderFrags == 4
MaxRead == 4
MaxAfterEOF == 2

ReaderFragments ==
    { <<"<", "a", "b", ">">>, <<"<", "/", "a", "b", ">">>, <<"<", "c", "/", ">">>,
      <<"x">>, <<" ">> }

\* a strings.Reader, or a reader that delivers at most max bytes per Read
ReadSizes == (1..MaxRead) \cup {ReaderBlock}

InitReader ==
    \E in \in Texts(ReaderFragments, MaxReaderFrags), max \in ReadSizes :
       InitOf(in, "Reader", "none", [NewElementStreamReader EXCEPT !.max = max], <<>>)

EOFs(out) == Cardinality({i \in 1..Len(out) : out[i].err = EOF})

\* reader.ReadNode(); eof and rd are those of the reader when the call returns
ReaderCall ==
    /\ phase = "Reader"
    /\ EOFs(rnOut) <= MaxAfterEOF
    /\ \E r \in {ReadNode(esr, input)} :
       /\ esr' = r.e
       /\ rnOut' = Append(rnOut, [node |-> r.node, err |-> r.err, flushed |-> r.flushed,
                                  eof |-> r.e.eof, rd |-> r.e.rd])
    /\ UNCHANGED <<input, phase, prOut, parseVars, streamVars, docVars>>

NextReader == ReaderCall

SpecReader == InitReader /\ [][NextReader]_vars

(***************************************************************************)
(* SpecReadErr: SpecReader on a reader one of whose first MaxFailIn Reads    *)
(* returns an error that is not io.EOF, the Reads after it succeeding as   *)
(* on a reader that timed out once.  ReadNode then returns in the middle   *)
(* of an element and is called again.                                      *)
(***************************************************************************)
MaxFailIn == 4

InitReadErr ==
    \E in \in Texts(ReaderFragments, MaxReaderFrags), max \in ReadSizes, k \in 1..MaxFailIn :
       InitOf(in, "Reader", "none",
              [NewElementStreamReader EXCEPT !.max = max, !.failIn = k], <<>>)

SpecReadErr == InitReadErr /\ [][NextReader]_vars

(***************************************************************************)
(* SpecAttrs: Parse of one opening tag `<e` with up to MaxAttrs attributes *)
(* written in the four lenient forms, closed by `>` or `/>`.  ref is the   *)
(* element with the attributes as they were written: per name the value    *)
(* of its last occurrence.                                                 *)
(***************************************************************************)
MaxAttrs == 4

AttrForm(text, name, value) == [text |-> text, name |-> name, value |-> value]

AttrForms ==
    { AttrForm(<<"a">>, <<"a">>, <<>>),
      AttrForm(<<"b", "=", "c">>, <<"b">>, <<"c">>),
      AttrForm(<<"d", "=", "\"", "e", " ", "f", "\"">>, <<"d">>, <<"e", " ", "f">>),
      AttrForm(<<"g", "=", "'", "h", " ", "i", "'">>, <<"g">>, <<"h", " ", "i">>),
      AttrForm(<<"a", "=", "z">>, <<"a">>, <<"z">>),
      AttrForm(<<"d", "=", "'", "y", "'">>, <<"d">>, <<"y">>) }

AttrLists == UNION {[1..n -> AttrForms] : n \in 0..MaxAttrs}

RECURSIVE AttrText(_)
AttrText(fs) == IF fs = <<>> THEN <<>> ELSE <<" ">> \o Head(fs).text \o AttrText(Tail(fs))

AttrsWritten(fs) ==
    {<<fs[i].name, fs[i].value>> :
        i \in {j \in 1..Len(fs) : \A m \in (j + 1)..Len(fs) : fs[m].name # fs[j].name}}

InitAttrs ==
    \E fs \in AttrLists, end \in {<<">">>, <<"/", ">">>} :
       InitOf(<<"<", "e">> \o AttrText(fs) \o end, "Parse", "none",
              NewElementStreamReader,
              <<[type |-> "ElementNode", name |-> <<"e">>, value |-> <<>>,
                 attrs |-> AttrsWritten(fs), children |-> <<>>]>>)

NextAttrs == ParseStep

SpecAttrs == InitAttrs /\ [][NextAttrs]_vars

(***************************************************************************)
(* SpecWellFormed: Parse of a well-formed input.  ref is a forest of at    *)
(* most MaxNodes nodes (elements with quoted attributes, text, comments,   *)
(* processing instructions; no two texts side by side), and the input is   *)
(* that forest written out as a strict XML writer writes it, an element    *)
(* without children either as `<n/>` or as `<n></n>`.  ref is then what a  *)
(* strict parser gives back for the input.                                 *)
(***************************************************************************)
MaxNodes == 4

TextValues == { <<"x", " ">>, <<" ", "x">>, <<"\n">> }

RefLeaves ==
    {[type |-> "TextNode", name |-> <<>>, value |-> v, attrs |-> {}, children |-> <<>>] :
        v \in TextValues}
    \cup {[type |-> "CommentNode", name |-> <<>>, value |-> <<"c">>, attrs |-> {},
           children |-> <<>>],
          [type |-> "ProcessingInstructionNode", name |-> <<"p">>, value |-> <<"d">>,
           attrs |-> {}, children |-> <<>>]}

RefTags ==
    { [name |-> <<"a">>, attrs |-> {}],
      [name |-> <<"b">>, attrs |-> {<<<<"k">>, <<"v">>>>, <<<<"m">>, <<"/", " ", ">">>>>}] }

RefElement(tag, kids) ==
    [type |-> "ElementNode", name |-> tag.name, value |-> <<>>, attrs |-> tag.attrs,
     children |-> kids]

NoTextsAdjacent(f) ==
    \A i \in 1..(Len(f) - 1) : ~(f[i].type = "TextNode" /\ f[i + 1].type = "TextNode")

\* the trees and the forests of exactly n nodes
RECURSIVE RefTreesOf(_)
RECURSIVE RefForestsOf(_)
RefTreesOf(n) ==
    IF n = 1
    THEN RefLeaves \cup {RefElement(tag, <<>>) : tag \in RefTags}
    ELSE {RefElement(tag, kids) : tag \in RefTags, kids \in RefForestsOf(n - 1)}

RefForestsOf(n) ==
    IF n = 0 THEN {<<>>}
    ELSE {f \in UNION {{<<t>> \o rest : t \in RefTreesOf(k), rest \in RefForestsOf(n - k)} :
                          k \in 1..n} : NoTextsAdjacent(f)}

RefForests == UNION {RefForestsOf(n) : n \in 0..MaxNodes}

\* the strict writer: attributes in the order k, m, the first in double and
\* the second in single quotes
WriteAttrs(attrs) ==
    (IF \E a \in attrs : a[1] = <<"k">>
     THEN <<" ", "k", "=", "\"">> \o (CHOOSE a \in attrs : a[1] = <<"k">>)[2] \o <<"\"">>
     ELSE <<>>)
    \o (IF \E a \in attrs : a[1] = <<"m">>
        THEN <<" ", "m", "=", "'">> \o (CHOOSE a \in attrs : a[1] = <<"m">>)[2] \o <<"'">>
        ELSE <<>>)

RECURSIVE WriteTree(_, _)
RECURSIVE WriteForest(_, _)
WriteTree(t, short) ==
    CASE t.type = "TextNode" -> t.value
      [] t.type = "CommentNode" -> <<"<", "!", "-", "-">> \o t.value \o <<"-", "-", ">">>
      [] t.type = "ProcessingInstructionNode" ->
            <<"<", "?">> \o t.name \o <<" ">> \o t.value \o <<"?", ">">>
      [] OTHER ->
            IF t.children = <<>> /\ short
            THEN <<"<">> \o t.name \o WriteAttrs(t.attrs) \o <<"/", ">">>
            ELSE <<"<">> \o t.name \o WriteAttrs(t.attrs) \o <<">">>
                 \o WriteForest(t.children, short)
                 \o <<"<", "/">> \o t.name \o <<">">>

WriteForest(f, short) ==
    IF f = <<>> THEN <<>> ELSE WriteTree(Head(f), short) \o WriteForest(Tail(f), short)

InitWellFormed ==
    \E f \in RefForests, short \in BOOLEAN :
       InitOf(WriteForest(f, short), "Parse", "none", NewElementStreamReader, f)

NextWellFormed == ParseStep

SpecWellFormed == InitWellFormed /\ [][NextWellFormed]_vars

(***************************************************************************)
(* SpecDoc: Parse of an input in which the name of the Document's root     *)
(* occurs as a tag name, then the queries and the rendering of the         *)
(* Document that Parse returned.                                           *)
(***************************************************************************)
MaxDocFrags == 4

DocFragments ==
    { <<"<", "a", ">">>, <<"<", "/", "a", ">">>, <<"<">> \o RootName \o <<">">>,
      <<"<", "/">> \o RootName \o <<">">>, <<"x">>,
      <<"<", "b", " ", "k", "=", "\"", "v", "\"", "/", ">">> }

InitDoc == \E in \in Texts(DocFragments, MaxDocFrags) : InitWith(in, "Parse", "none")

NextDoc == ParseStep \/ StringCall \/ DeepFindCall

SpecDoc == InitDoc /\ [][NextDoc]_vars

(***************************************************************************)
(* Trees.  Tree(h, id) is the tree below node id of heap h as a value, so  *)
(* that trees built in different heaps can be compared.                    *)
(***************************************************************************)
RECURSIVE Tree(_, _)
Tree(h, id) ==
    [type |-> h[id].type, name |-> h[id].name, value |-> h[id].value,
     attrs |-> h[id].attrs,
     children |-> [i \in 1..Len(h[id].children) |-> Tree(h, h[id].children[i])]]

Trees(h, ids) == [i \in 1..Len(ids) |-> Tree(h, ids[i])]

Elem(name, kids) ==
    [type |-> "ElementNode", name |-> name, value |-> <<>>, attrs |-> {},
     children |-> kids]
Txt(text) ==
    [type |-> "TextNode", name |-> <<>>, value |-> text, attrs |-> {}, children |-> <<>>]

\* the children of the Document's root, the nodes the ReadNode calls returned,
\* and the Nodes of the StreamDocument, as trees
ParseTrees == Trees(nodes, nodes[1].children)
ReadNodeTrees ==
    Trees(esr.heap, [i \in 1..(Len(rnOut) - 1) |-> rnOut[i].node])
ParseReaderTrees == Trees(prOut.heap, prOut.Nodes)

\* node id hangs below the root: its parent chain ends at node 1, and each
\* node on it is listed once among the children of its parent
RECURSIVE UnderRoot(_, _)
UnderRoot(h, id) ==
    \/ id = 1
    \/ /\ h[id].parent \in 1..(id - 1)
       /\ Cardinality({k \in 1..Len(h[h[id].parent].children) :
                         h[h[id].parent].children[k] = id}) = 1
       /\ UnderRoot(h, h[id].parent)

Names == {<<"a">>, <<"b">>}
OpenTag(n) == <<"<">> \o n \o <<">">>
CloseTag(n) == <<"<", "/">> \o n \o <<">">>
CommentEnd == <<"-", "-", ">">>

(***************************************************************************)
(* C1.  Parse returns a Document with a root whatever the input, also when *)
(* it returns an error, and nothing that was attached is lost: a step of   *)
(* Parse never removes a node nor takes a child from a node, and every     *)
(* node of the returned Document hangs below its root.                     *)
(***************************************************************************)
DocumentReturned ==
    parseRet.done =>
        /\ ~parseRet.doc.nil
        /\ parseRet.doc.Root = 1
        /\ nodes[1] = [RootNode EXCEPT !.children = nodes[1].children]
        /\ \A id \in 2..Len(nodes) : UnderRoot(nodes, id)

NodesKept ==
    /\ Len(nodes') >= Len(nodes)
    /\ \A id \in 1..Len(nodes) :
          /\ nodes'[id] = [nodes[id] EXCEPT !.children = nodes'[id].children]
          /\ Len(nodes'[id].children) >= Len(nodes[id].children)
          /\ SubSeq(nodes'[id].children, 1, Len(nodes[id].children)) = nodes[id].children

C1_DocumentAlwaysReturned == [](DocumentReturned) /\ [][NodesKept]_vars

\* Parse has returned an error with a Document whose root has children
C1_ErrorWithNodes ==
    parseRet.done /\ parseRet.err # NilErr /\ Len(nodes[1].children) >= 1

(***************************************************************************)
(* C5.  As claimed: Parse returns an error exactly when some failure       *)
(* occurred, at whatever depth, and the error is the first failure.        *)
(***************************************************************************)
C5_FirstFailureAnywhere ==
    parseRet.done =>
        /\ (parseRet.err # NilErr) <=> (failures # <<>>)
        /\ failures # <<>> => parseRet.err = failures[1].err

\* C5, amended.  Parse returns an error exactly when a failure occurred in the
\* outermost parse call (no element open); the error is that failure, which is
\* the last failure of the run and the only one at that depth.  A failure
\* below an element is not returned.
C5_TopLevelFailureReturned ==
    parseRet.done =>
        /\ (parseRet.err # NilErr) <=> (\E i \in 1..Len(failures) : failures[i].depth = 1)
        /\ \A i \in 1..Len(failures) :
              failures[i].depth = 1 => i = Len(failures) /\ parseRet.err = failures[i].err

\* Parse has returned nil although a failure occurred below an element
C5_NestedFailureSwallowed ==
    /\ parseRet.done
    /\ parseRet.err = NilErr
    /\ \E i \in 1..Len(failures) : failures[i].depth > 1

(***************************************************************************)
(* C4.  As claimed: a name failure does not stop Parse, so an opening tag  *)
(* `<n>` that stands in the input after the construct that failed gives an *)
(* element named n in the Document.  (Nothing follows an unterminated      *)
(* delimiter: what is left of the input is its body.)                      *)
(***************************************************************************)
IsNameFailure(f) == f.err.delim = <<>>

C4_FailureDoesNotHalt ==
    parseRet.done =>
        \A i \in 1..Len(failures) :
            IsNameFailure(failures[i]) =>
                \A q \in (failures[i].start + 1)..(Len(input) - 3), n \in Names :
                    Slice(input, q, q + 3) = OpenTag(n) =>
                        \E id \in 2..Len(nodes) :
                            nodes[id].type = "ElementNode" /\ nodes[id].name = n

(***************************************************************************)
(* C6.  As claimed: a comment that is never closed is kept.  Under Parse   *)
(* the step that meets it attaches a Comment node holding what was read of *)
(* the body; under Stream the Next call that records the unterminated      *)
(* error was preceded by a Comment event, the last event emitted.          *)
(***************************************************************************)
IsPrefix(a, b) == Len(a) <= Len(b) /\ SubSeq(b, 1, Len(a)) = a

C6_PartialCommentKept ==
    /\ (last.kind = "comment" /\ last.err = UntermErr(CommentEnd)) =>
          /\ nodes[Len(nodes)].type = "CommentNode"
          /\ IsPrefix(nodes[Len(nodes)].value, Slice(input, last.start + 4, Len(input)))
    /\ s.err = UntermErr(CommentEnd) =>
          /\ events # <<>>
          /\ events[Len(events)].type = "Comment"

(***************************************************************************)
(* C7.  As claimed: every non-empty input is a strict prefix of some       *)
(* input, so Parse of a non-empty input returns a root with a child.       *)
(***************************************************************************)
C7_TruncationMonotone ==
    (parseRet.done /\ input # <<>>) => Len(nodes[1].children) >= 1

(***************************************************************************)
(* The inputs of C8: opening tags `<n>` and text, at least one tag, so     *)
(* that the input ends in the content of the elements it opened.  Tokens   *)
(* reads such an input the strict way: a tag, or a text run up to the next *)
(* `<`; ChainKids is the tree in which each element holds what follows it. *)
(***************************************************************************)
RECURSIVE TextRunEnd(_, _)
TextRunEnd(in, p) == IF p < Len(in) /\ At(in, p) # "<" THEN TextRunEnd(in, p + 1) ELSE p

RECURSIVE Tokens(_, _)
Tokens(in, p) ==
    IF p >= Len(in) THEN <<>>
    ELSE IF At(in, p) = "<"
    THEN IF p + 3 <= Len(in) /\ \E n \in Names : Slice(in, p, p + 3) = OpenTag(n)
         THEN <<[type |-> "StartElement", name |-> <<At(in, p + 1)>>, text |-> <<>>]>>
              \o Tokens(in, p + 3)
         ELSE <<[type |-> "Malformed", name |-> <<>>, text |-> <<>>]>>
    ELSE <<[type |-> "Text", name |-> <<>>, text |-> Slice(in, p, TextRunEnd(in, p))]>>
         \o Tokens(in, TextRunEnd(in, p))

EndsInOpenElements(in) ==
    /\ \A i \in 1..Len(Tokens(in, 0)) : Tokens(in, 0)[i].type # "Malformed"
    /\ \E i \in 1..Len(Tokens(in, 0)) : Tokens(in, 0)[i].type = "StartElement"

RECURSIVE ChainKids(_)
ChainKids(toks) ==
    IF toks = <<>> THEN <<>>
    ELSE IF Head(toks).type = "Text"
    THEN <<Txt(Head(toks).text)>> \o ChainKids(Tail(toks))
    ELSE <<Elem(Head(toks).name, ChainKids(Tail(toks)))>>

TokenEvents(toks) ==
    [i \in 1..Len(toks) |-> Event(toks[i].type, toks[i].name, toks[i].text, {}, FALSE)]

\* the driver has called Next until it returned false
Drained == phase \in {"ReadNode", "ParseReader", "Done"}

(***************************************************************************)
(* C8.  As claimed: for an input that ends in the content of open          *)
(* elements, Parse returns nil and the tree in which every element holds   *)
(* what follows it, and the Stream emits the StartElement and Text events  *)
(* of the input and has no error.                                          *)
(***************************************************************************)
C8_UnclosedWithoutError ==
    EndsInOpenElements(input) =>
        /\ parseRet.done =>
              /\ parseRet.err = NilErr
              /\ ParseTrees = ChainKids(Tokens(input, 0))
        /\ Drained =>
              /\ s.err = NilErr
              /\ events = TokenEvents(Tokens(input, 0))

(***************************************************************************)
(* C9.  As claimed: for `<outer><inner>TEXT</outer>`, Parse and            *)
(* ParseReader both give one element outer holding only inner holding only *)
(* the Text node TEXT, with no error.                                      *)
(***************************************************************************)
TextFrags == {<<"x">>, <<" ">>, <<" ", "x">>, <<"x", " ">>, <<"x", "x">>}

C9_InnerUnclosed ==
    \A outer \in Names, inner \in Names, text \in TextFrags :
        (/\ phase = "Done"
         /\ outer # inner
         /\ input = OpenTag(outer) \o OpenTag(inner) \o text \o CloseTag(outer))
        => /\ parseRet.err = NilErr
           /\ ParseTrees = <<Elem(outer, <<Elem(inner, <<Txt(text)>>)>>)>>
           /\ prOut.err = NilErr
           /\ ParseReaderTrees = <<Elem(outer, <<Elem(inner, <<Txt(text)>>)>>)>>

RECURSIVE Drain(_)
Drain(st) ==
    With(StreamNext(st), LAMBDA nx :
    IF nx.ret THEN <<nx.s.currentEvent>> \o Drain(nx.s) ELSE <<>>)

WholeEvents(in) == Drain(AddData(NewStream, in))

C2_ChunkedEquivalence ==
    (fed = Len(input) /\ lastRet = "false" /\ orderly) => events = WholeEvents(input)

(***************************************************************************)
(* C3.  As claimed: while more input is to come and the buffer ends inside *)
(* a tag (a `<` with no `>` after it), Next has not moved the position     *)
(* past that `<`; and a tag `<ab>` fed in any chunks gives the one         *)
(* StartElement ab once it is complete.                                    *)
(***************************************************************************)
OpenLTs(buf) ==
    {q \in 0..(Len(buf) - 1) :
        At(buf, q) = "<" /\ \A k \in (q + 1)..(Len(buf) - 1) : At(buf, k) # ">"}

C3_PartialUnitNotConsumed ==
    /\ (fed < Len(input) /\ OpenLTs(s.buffer) # {}) =>
          \A q \in OpenLTs(s.buffer) : (\A k \in OpenLTs(s.buffer) : k <= q) => s.position <= q
    /\ (input = OpenTag(<<"a", "b">>) /\ fed = Len(input) /\ lastRet = "false") =>
          events = <<Event("StartElement", <<"a", "b">>, <<>>, {}, FALSE)>>

(***************************************************************************)
(* C11.  As claimed: a close tag met while no element is open, whatever    *)
(* its name (the name of the Document's root included), adds no node,      *)
(* raises no error and does not end the parse, and what follows it is      *)
(* parsed at top level as if the tag were not there.                       *)
(***************************************************************************)
C11_StrayCloseTagIgnored ==
    /\ (last.kind = "close" /\ last.depth = 1 /\ last.err = NilErr) =>
          (last.act = "skip" /\ Len(frames) = 1)
    /\ \A n \in Names \cup {RootName} :
          (parseRet.done /\ IsPrefix(CloseTag(n), input)) =>
             With(Parse(Slice(input, Len(CloseTag(n)), Len(input))), LAMBDA rest :
                  /\ ParseTrees = Trees(rest.nodes, rest.nodes[1].children)
                  /\ (parseRet.err = NilErr) <=> (rest.err = NilErr))

(***************************************************************************)
(* C12.  As claimed: the Nodes of the StreamDocument that ParseReader      *)
(* returns are the root-level nodes of the input in input order, each      *)
(* once and none lost: they match the children of the root of Parse's      *)
(* Document node for node, and two root elements in a row give two nodes.  *)
(***************************************************************************)
Shallow(t) == [type |-> t.type, name |-> t.name, value |-> t.value]

C12_ParseReaderNodesMatchParse ==
    /\ phase = "Done" =>
          /\ Len(ParseReaderTrees) = Len(ParseTrees)
          /\ \A i \in 1..Len(ParseTrees) :
                Shallow(ParseReaderTrees[i]) = Shallow(ParseTrees[i])
    /\ \A n1 \in Names, n2 \in Names :
          (phase = "Done" /\ input = OpenTag(n1) \o CloseTag(n1) \o OpenTag(n2) \o CloseTag(n2))
          => Len(prOut.Nodes) = 2

(***************************************************************************)
(* C13.  As claimed: every Text, Comment and ProcessingInstruction event   *)
(* that arrives while no element is open is returned by ReadNode as a      *)
(* top-level node of its own, and is added to Nodes by ParseReader.        *)
(***************************************************************************)
LeafType(eventType) ==
    CASE eventType = "Text" -> "TextNode"
      [] eventType = "Comment" -> "CommentNode"
      [] OTHER -> "ProcessingInstructionNode"

\* the leaf events of evs that arrive at depth 0, as the nodes they stand for
RECURSIVE RootLeaves(_, _)
RootLeaves(evs, depth) ==
    IF evs = <<>> THEN <<>>
    ELSE With(Head(evs), LAMBDA ev :
         CASE ev.type = "StartElement" ->
                 RootLeaves(Tail(evs), IF ev.selfClosing THEN depth ELSE depth + 1)
           [] ev.type = "EndElement" ->
                 RootLeaves(Tail(evs), IF depth > 0 THEN depth - 1 ELSE 0)
           [] OTHER ->
                 (IF depth = 0
                  THEN <<[type |-> LeafType(ev.type), name |-> ev.name, value |-> ev.text]>>
                  ELSE <<>>)
                 \o RootLeaves(Tail(evs), depth))

IsLeaf(t) == t.type # "ElementNode"
Leaves(trees) ==
    With(SelectSeq(trees, IsLeaf), LAMBDA ls : [i \in 1..Len(ls) |-> Shallow(ls[i])])

C13_RootLeavesReturned ==
    phase = "Done" =>
       /\ Leaves(ReadNodeTrees) = RootLeaves(events, 0)
       /\ Leaves(ParseReaderTrees) = RootLeaves(events, 0)

(***************************************************************************)
(* C15.  As claimed: ReadNode returns an element that is still open only   *)
(* when the input has ended, that is when the reader has reported its end  *)
(* and every byte of the input has been read; that element is the last     *)
(* node, the next call returns io.EOF.  This for every reader, one that    *)
(* delivers the input in small reads included.                             *)
(***************************************************************************)
C15_OpenElementOnlyAtEnd ==
    \A i \in 1..Len(rnOut) :
       rnOut[i].flushed =>
          /\ rnOut[i].eof
          /\ rnOut[i].rd = Len(input)
          /\ i < Len(rnOut) => (rnOut[i + 1].err = EOF /\ rnOut[i + 1].node = 0)

(***************************************************************************)
(* C14.  As claimed: when the content is a sequence of complete root-level *)
(* elements, successive ReadNode calls return them one per call, in order, *)
(* each with its descendants (a self-closing one at once), and then        *)
(* io.EOF; once io.EOF was returned every later call returns io.EOF and no *)
(* node.                                                                   *)
(***************************************************************************)
Drop(in, n) == Slice(in, n, Len(in))

\* in is a sequence of complete elements, `depth` elements being open before it
RECURSIVE CompleteElements(_, _)
CompleteElements(in, depth) ==
    IF in = <<>> THEN depth = 0
    ELSE IF IsPrefix(<<"<", "a", "b", ">">>, in) THEN CompleteElements(Drop(in, 4), depth + 1)
    ELSE IF IsPrefix(<<"<", "/", "a", "b", ">">>, in)
    THEN depth > 0 /\ CompleteElements(Drop(in, 5), depth - 1)
    ELSE IF IsPrefix(<<"<", "c", "/", ">">>, in) THEN CompleteElements(Drop(in, 4), depth)
    ELSE depth > 0 /\ Head(in) = "x" /\ CompleteElements(Tail(in), depth)

C14_OneElementPerCall ==
    (phase = "Reader" /\ CompleteElements(input, 0)) =>
       With(Parse(input), LAMBDA doc :
       \A i \in 1..Len(rnOut) :
          IF i <= Len(doc.nodes[1].children)
          THEN /\ rnOut[i].err = NilErr
               /\ rnOut[i].node # 0
               /\ Tree(esr.heap, rnOut[i].node) = Tree(doc.nodes, doc.nodes[1].children[i])
          ELSE rnOut[i].err = EOF /\ rnOut[i].node = 0)

(***************************************************************************)
(* C16.  Attribute leniency.  In an opening tag an attribute without `=`   *)
(* is stored with the empty value, an unquoted value runs up to the next   *)
(* whitespace, `>` or `/`, a value quoted with `"` or `'` is stored        *)
(* without its quotes and may hold spaces, and a repeated name keeps its   *)
(* last value; `<e a b=c d="e f" g='h i'>` gives a="", b="c", d="e f",     *)
(* g="h i".                                                                *)
(***************************************************************************)
AttrExample ==
    <<"<", "e", " ", "a", " ", "b", "=", "c", " ", "d", "=", "\"", "e", " ", "f", "\"",
      " ", "g", "=", "'", "h", " ", "i", "'", ">">>

AttrExampleAttrs ==
    { <<<<"a">>, <<>>>>, <<<<"b">>, <<"c">>>>, <<<<"d">>, <<"e", " ", "f">>>>,
      <<<<"g">>, <<"h", " ", "i">>>> }

C16_AttributeLeniency ==
    parseRet.done =>
       /\ parseRet.err = NilErr
       /\ ParseTrees = ref
       /\ input = AttrExample => nodes[2].attrs = AttrExampleAttrs

\* the tag of the example has been parsed
C16_ExampleParsed ==
    /\ parseRet.done
    /\ input = AttrExample
    /\ Len(nodes) = 2
    /\ nodes[2].attrs = AttrExampleAttrs

(***************************************************************************)
(* C18.  For every well-formed input Parse returns no error, and the tree  *)
(* under the root has the element names, the attributes, the text and the  *)
(* nesting that a strict parser produces for it.                           *)
(***************************************************************************)
C18_WellFormedAsStrictParser ==
    parseRet.done =>
       /\ parseRet.err = NilErr
       /\ failures = <<>>
       /\ ParseTrees = ref

\* a well-formed input with nesting, attributes, text and a comment has been
\* parsed: `<b k="v" m='/ >'><a>x </a><!--c--></b>`
C18_NestedInputParsed ==
    /\ parseRet.done
    /\ ref = <<[type |-> "ElementNode", name |-> <<"b">>, value |-> <<>>,
                attrs |-> {<<<<"k">>, <<"v">>>>, <<<<"m">>, <<"/", " ", ">">>>>},
                children |-> <<Elem(<<"a">>, <<Txt(<<"x", " ">>)>>),
                               [type |-> "CommentNode", name |-> <<>>, value |-> <<"c">>,
                                attrs |-> {}, children |-> <<>>]>>]>>
    /\ Len(nodes) = 5
    /\ ParseTrees = ref

(***************************************************************************)
(* C17.  Mixed content.  When text runs and elements alternate at the top  *)
(* level, Parse puts them under the root in input order, and each Text     *)
(* node holds exactly the bytes between the tags around it, leading and    *)
(* trailing whitespace and newlines included: `x <a> x</a> x` gives the    *)
(* Text `x `, the element a and the Text ` x`.                             *)
(***************************************************************************)
TextsAndElements(f) == \A i \in 1..Len(f) : f[i].type \in {"TextNode", "ElementNode"}

MixedExample == <<Txt(<<"x", " ">>), Elem(<<"a">>, <<Txt(<<" ", "x">>)>>), Txt(<<" ", "x">>)>>

C17_MixedContentInOrder ==
    (parseRet.done /\ TextsAndElements(ref)) =>
       /\ Len(nodes[1].children) = Len(ref)
       /\ \A i \in 1..Len(ref) :
             /\ nodes[nodes[1].children[i]].parent = 1
             /\ Shallow(nodes[nodes[1].children[i]]) = Shallow(ref[i])
       /\ ref = MixedExample =>
             /\ input = <<"x", " ", "<", "a", ">", " ", "x", "<", "/", "a", ">", " ", "x">>
             /\ nodes[2].value = <<"x", " ">>
             /\ nodes[3].name = <<"a">>
             /\ nodes[5].value = <<" ", "x">>

\* the example has been parsed: text, element, text under the root
C17_MixedExampleParsed ==
    /\ parseRet.done
    /\ ref = MixedExample
    /\ nodes[1].children = <<2, 3, 5>>
    /\ nodes[2].value = <<"x", " ">>
    /\ nodes[5].value = <<" ", "x">>

(***************************************************************************)
(* C19.  As claimed: for the Document d that Parse returned,               *)
(* Parse(d.String()) succeeds and gives a tree with the element names,     *)
(* the nesting, the attributes and the text content of d.  The tree of d   *)
(* is looked for under the root of the second Document, and also under     *)
(* the element that String wrote for the root of d.                        *)
(***************************************************************************)
C19_RoundTrip ==
    strOut.done =>
       /\ strOut.err = NilErr
       /\ \/ Trees(strOut.nodes, strOut.nodes[1].children) = ParseTrees
          \/ Trees(strOut.nodes, strOut.nodes[1].children) = <<Tree(nodes, 1)>>

(***************************************************************************)
(* C20.  As claimed: no name query returns the root of the Document: for   *)
(* every input and every name, the name of the root included, DeepFind     *)
(* and FindOne return only elements that occur in the input.               *)
(***************************************************************************)
C20_RootNeverFound ==
    /\ \A i \in 1..Len(findOut.nodes) : findOut.nodes[i] # parseRet.doc.Root
    /\ findOut.foundOne => findOut.node # parseRet.doc.Root

(***************************************************************************)
(* C21.  As claimed: the buffer of a Stream is append-only, also when the  *)
(* caller of AddData reuses the slice it passed: while an                  *)
(* ElementStreamReader reads its source block by block, the buffer is      *)
(* what the reader has delivered so far, and it is the whole content once  *)
(* the source is read.                                                     *)
(***************************************************************************)
C21_BufferAppendOnly ==
    phase = "Reader" => esr.stream.buffer = Slice(input, 0, esr.rd)

(***************************************************************************)
(* C22.  No operation panics on malformed input.  Parse, Stream.Next,      *)
(* ReadNode and ParseReader leave their cursor at or below the length of   *)
(* what they scan (At is applied below the length only, a slice ends at    *)
(* the cursor), and every node they go on from is a node: the parent of    *)
(* an open parse call, the top of ReadNode's stack, and in ParseReader     *)
(* the parent that a close tag navigates to.                               *)
(***************************************************************************)
\* every node of heap h that is not one of `tops` has a parent in h that lists it
Linked(h, tops) ==
    \A id \in 1..Len(h) :
       id \notin tops =>
          /\ h[id].parent \in 1..Len(h)
          /\ \E k \in 1..Len(h[h[id].parent].children) : h[h[id].parent].children[k] = id

Range(seq) == {seq[i] : i \in 1..Len(seq)}

C22_NoPanic ==
    /\ pos <= Len(input)
    /\ \A i \in 1..Len(frames) : frames[i] \in 1..Len(nodes)
    /\ Linked(nodes, {1})
    /\ s.position <= Len(s.buffer)
    /\ esr.stream.position <= Len(esr.stream.buffer)
    /\ \A i \in 1..Len(esr.stack) : esr.stack[i] \in 1..Len(esr.heap)
    /\ esr.currentNode \in 0..Len(esr.heap)
    /\ Linked(esr.heap, {id \in 1..Len(esr.heap) : esr.heap[id].parent = 0})
    /\ prOut.done => Linked(prOut.heap, Range(prOut.Nodes))

\* ParseReader has navigated up from a nested element on a close tag, after
\* Parse met an unterminated construct on the same input
C22_MalformedInputRun ==
    /\ phase = "Done"
    /\ input = <<"<", "a", ">", "<", "a", ">", "<", "/", "a", ">", "<", "!", "-", "-">>
    /\ Len(prOut.heap) >= 2

(***************************************************************************)
(* C23.  As claimed: when the byte at the scan position is not `<`, the    *)
(* scanner reads up to the next `<` or to the end of the available bytes   *)
(* and emits one Text whose content is exactly that run, leading           *)
(* whitespace and a whitespace-only run included; Parse attaches that run  *)
(* as a Text node and Stream.Next returns it as a Text event.              *)
(***************************************************************************)
TextRun(in, p) == Slice(in, p, scanTo(in, p, {"<"}))

C23_TextRunEmittedWhole ==
    [][/\ (phase = "Parse" /\ pos < Len(input) /\ At(input, pos) # "<") =>
             /\ Len(nodes') = Len(nodes) + 1
             /\ nodes'[Len(nodes')].type = "TextNode"
             /\ nodes'[Len(nodes')].value = TextRun(input, pos)
       /\ (phase = "Stream" /\ lastRet # "none" /\ s.err = NilErr
           /\ s.position < Len(s.buffer) /\ At(s.buffer, s.position) # "<") =>
             /\ lastRet' = "true"
             /\ s'.currentEvent.type = "Text"
             /\ s'.currentEvent.text = TextRun(s.buffer, s.position)]_vars

(***************************************************************************)
(* C24.  As claimed: for a terminated processing instruction               *)
(* `<?target data?>` the scanner yields the target name and the data       *)
(* without the whitespace around it, as the node that Parse attaches and   *)
(* as the event that Stream.Next returns.                                  *)
(***************************************************************************)
\* a terminated processing instruction begins at p
PIAt(in, p) ==
    /\ p + 2 < Len(in)
    /\ At(in, p) = "<" /\ At(in, p + 1) = "?"
    /\ isNameStart(At(in, p + 2))
    /\ findDelim(in, nameEnd(in, p + 2), <<"?", ">">>).found

PITarget(in, p) == Slice(in, p + 2, nameEnd(in, p + 2))
PIData(in, p) ==
    TrimSpace(Slice(in, nameEnd(in, p + 2), findDelim(in, nameEnd(in, p + 2), <<"?", ">">>).pos))

C24_PIDataTrimmed ==
    [][/\ (phase = "Parse" /\ PIAt(input, pos)) =>
             /\ Len(nodes') = Len(nodes) + 1
             /\ nodes'[Len(nodes')].type = "ProcessingInstructionNode"
             /\ nodes'[Len(nodes')].name = PITarget(input, pos)
             /\ nodes'[Len(nodes')].value = PIData(input, pos)
       /\ (phase = "Stream" /\ lastRet # "none" /\ s.err = NilErr
           /\ PIAt(s.buffer, s.position)) =>
             /\ lastRet' = "true"
             /\ s'.currentEvent.type = "ProcessingInstruction"
             /\ s'.currentEvent.name = PITarget(s.buffer, s.position)
             /\ s'.currentEvent.text = PIData(s.buffer, s.position)]_vars

(***************************************************************************)
(* C25.  As claimed: reading a name fails with a name error, and consumes  *)
(* nothing, unless the byte at the current position is a letter, an        *)
(* underscore or a colon; whitespace where the name of a tag should begin, *)
(* as in `< a>` or `</ a>`, is a name error and is not skipped.            *)
(***************************************************************************)
\* a tag begins at p whose name position holds whitespace
SpaceBeforeName(in, p) ==
    /\ p + 1 < Len(in)
    /\ At(in, p) = "<"
    /\ \/ isWhitespace(At(in, p + 1))
       \/ At(in, p + 1) = "/" /\ p + 2 < Len(in) /\ isWhitespace(At(in, p + 2))

C25_NameMustStartAtCursor ==
    [][/\ (phase = "Parse" /\ SpaceBeforeName(input, pos)) =>
             /\ last'.err # NilErr
             /\ last'.err.delim = <<>>
             /\ nodes' = nodes
       /\ (phase = "Stream" /\ lastRet # "none" /\ s.err = NilErr
           /\ SpaceBeforeName(s.buffer, s.position)) =>
             /\ lastRet' = "false"
             /\ s'.err # NilErr
             /\ s'.err.delim = <<>>]_vars

(***************************************************************************)
(* C26.  As claimed: when read-until-delimiter does not find the           *)
(* delimiter it fails only at the end of the available bytes: the cursor   *)
(* is left at the end, the partial text is every byte up to the end, and   *)
(* so no byte of an unterminated comment or processing instruction is read *)
(* again as text (Parse of `<a><!--xx` adds no Text node).                 *)
(***************************************************************************)
C26_UnterminatedReadsToEnd ==
    /\ (last.err # NilErr /\ last.err.delim # <<>>) => pos = Len(input)
    /\ (s.err # NilErr /\ s.err.delim # <<>>) => s.position = Len(s.buffer)
    /\ (parseRet.done /\ input = <<"<", "a", ">", "<", "!", "-", "-", "x", "x">>) =>
          ParseTrees = <<Elem(<<"a">>, <<>>)>>

(***************************************************************************)
(* C27.  In every tree built by Parse, ReadNode or ParseReader, a node     *)
(* with a parent occurs exactly once among that parent's Children, every   *)
(* node among the Children of a node has that node as Parent, the only     *)
(* nodes without a parent are the root of the Document (Parse) or the      *)
(* top-level nodes (ReadNode, ParseReader), and there is no cycle: a       *)
(* parent is always older than its child.                                  *)
(***************************************************************************)
WellLinked(h, tops) ==
    /\ \A id \in 1..Len(h) :
          /\ (h[id].parent = 0) <=> (id \in tops)
          /\ id \notin tops =>
                /\ h[id].parent \in 1..(id - 1)
                /\ Cardinality({k \in 1..Len(h[h[id].parent].children) :
                                  h[h[id].parent].children[k] = id}) = 1
    /\ \A id \in 1..Len(h) : \A k \in 1..Len(h[id].children) :
          /\ h[id].children[k] \in 1..Len(h)
          /\ h[h[id].children[k]].parent = id

\* the nodes that the ReadNode calls have returned, and the one being built
ReadNodeTops == ({rnOut[i].node : i \in 1..Len(rnOut)} \cup {esr.currentNode}) \ {0}

C27_TreesWellLinked ==
    /\ WellLinked(nodes, {1})
    /\ WellLinked(esr.heap, ReadNodeTops)
    /\ prOut.done => WellLinked(prOut.heap, Range(prOut.Nodes))

\* all three have built a tree with an element inside an element and a text
C27_NestedTreesBuilt ==
    /\ phase = "Done"
    /\ input = <<"<", "a", ">", "<", "b", ">", "x", "<", "/", "b", ">">>
    /\ Len(nodes) = 4
    /\ Len(esr.heap) = 3
    /\ Len(prOut.heap) = 3

(***************************************************************************)
(* C28.  Under Parse a self-closing element never gets children, and once  *)
(* an element is self-closing or is closed by a close tag of its own name, *)
(* the nodes that follow become children of its parent; several root       *)
(* elements in a row are all children of the Document's root, in input     *)
(* order.  (In SpecDoc the elements named b are the self-closing ones.)    *)
(***************************************************************************)
SelfClosingB ==
    [type |-> "ElementNode", name |-> <<"b">>, value |-> <<>>,
     attrs |-> {<<<<"k">>, <<"v">>>>}, children |-> <<>>]

C28_ClosedElementGetsNoChildren ==
    /\ \A id \in 1..Len(nodes) : nodes[id].name = <<"b">> => nodes[id].children = <<>>
    \* the step just taken: a self-closing tag opens no parse call, a close tag
    \* of the open element's name ends its parse call
    /\ (last.kind = "open" /\ last.act = "attach") => Len(frames) = last.depth
    /\ (last.kind = "close" /\ last.err = NilErr /\ last.name = last.parentName
        /\ last.depth > 1) => Len(frames) = last.depth - 1
    \* a node is attached to the element whose parse call is running
    /\ (last.act \in {"attach", "descend"} /\ frames # <<>>) =>
          /\ nodes[Len(nodes)].parent = frames[last.depth]
          /\ nodes[frames[last.depth]].children[Len(nodes[frames[last.depth]].children)]
                = Len(nodes)
    /\ (parseRet.done /\ input = OpenTag(<<"a">>) \o CloseTag(<<"a">>)
                                 \o <<"<", "b", " ", "k", "=", "\"", "v", "\"", "/", ">">>
                                 \o OpenTag(<<"a">>)) =>
          ParseTrees = <<Elem(<<"a">>, <<>>), SelfClosingB, Elem(<<"a">>, <<>>)>>
    /\ (parseRet.done /\ input = OpenTag(<<"a">>)
                                 \o <<"<", "b", " ", "k", "=", "\"", "v", "\"", "/", ">">>
                                 \o <<"x">> \o CloseTag(<<"a">>)) =>
          ParseTrees = <<Elem(<<"a">>, <<SelfClosingB, Txt(<<"x">>)>>)>>

\* three root elements in a row have been parsed, the second self-closing
C28_RootElementsInARow ==
    /\ parseRet.done
    /\ input = OpenTag(<<"a">>) \o CloseTag(<<"a">>)
               \o <<"<", "b", " ", "k", "=", "\"", "v", "\"", "/", ">">> \o OpenTag(<<"a">>)
    /\ nodes[1].children = <<2, 3, 4>>

(***************************************************************************)
(* C29.  After any sequence of AddData and Next calls on a Stream,         *)
(* 0 <= position <= len(buffer); no call decreases position, and a Next    *)
(* call that returns true increases it: an event consumes at least one     *)
(* byte.                                                                   *)
(***************************************************************************)
C29_PositionMonotone ==
    [][/\ 0 <= s'.position
       /\ s'.position <= Len(s'.buffer)
       /\ s'.position >= s.position
       /\ Len(events') > Len(events) => s'.position > s.position]_vars

\* the Stream has returned two events and has scanned its whole buffer
C29_EventsAcrossChunks ==
    /\ phase = "Chunks"
    /\ input = <<"<", "a", "b", ">", "x">>
    /\ Len(events) = 2
    /\ s.position = Len(s.buffer)
    /\ s.position = 5

C31_ErrorIsSticky ==
    [][s.err # NilErr =>
          /\ s'.err = s.err
          /\ s'.position = s.position
          /\ s'.currentEvent = s.currentEvent
          /\ events' = events
          /\ lastRet' \in {"new", "false"}
          /\ lastRet' = "false" => s' = s]_vars

\* Next has been called after the last chunk was added to a Stream whose
\* error was recorded on the chunks before: the buffer holds a whole comment
C31_NextAfterErrorAndData ==
    /\ phase = "Chunks"
    /\ input = <<"<", "!", "-", "-", "-", "-", ">">>
    /\ fed = Len(input)
    /\ s.buffer = input
    /\ s.err # NilErr
    /\ lastRet = "false"
    /\ events = <<>>

\* C32: after a Next that returned true, Event() is non-nil and Err() is nil;
\* after a Next that returned false with Err() nil, the position is the
\* length of the buffer
C32_NextResultMatchesState ==
    /\ lastRet = "true" => s.currentEvent # NilEvent /\ s.err = NilErr
    /\ lastRet = "false" /\ s.err = NilErr => s.position = Len(s.buffer)

\* Next has returned true for the element and then false, without an error,
\* on the whitespace that follows it
C32_CleanExhaustion ==
    /\ phase = "Chunks"
    /\ input = <<"<", "a", "b", ">", " ">>
    /\ fed = Len(input)
    /\ Len(events) = 1
    /\ lastRet = "false"
    /\ s.err = NilErr
    /\ s.position = 5

\* C33: between ReadNode calls currentNode is non-nil exactly when the stack
\* is not empty, the bottom of the stack is currentNode, each entry above
\* the bottom is a child of the entry below it, and no node that was
\* returned is on the stack
C33_StackFollowsCurrentNode ==
    /\ (esr.currentNode # 0) <=> (Len(esr.stack) > 0)
    /\ Len(esr.stack) > 0 => esr.stack[1] = esr.currentNode
    /\ \A i \in 2..Len(esr.stack) :
          /\ esr.heap[esr.stack[i]].parent = esr.stack[i - 1]
          /\ esr.stack[i] \in Range(esr.heap[esr.stack[i - 1]].children)
    /\ \A i \in 1..Len(rnOut) : rnOut[i].node # 0 => rnOut[i].node \notin Range(esr.stack)

\* ReadNode has returned an element, and then the error of a Read that failed
\* while two elements were open
C33_ReturnedWithOpenElements ==
    /\ phase = "Reader"
    /\ Len(rnOut) = 2
    /\ rnOut[1].node # 0
    /\ rnOut[2].err = ReadErr
    /\ Len(esr.stack) = 2
    /\ esr.currentNode = esr.stack[1]

====
